---- MODULE Spec2Model ----
(***************************************************************************)
(* Brand Finder (src/app.py): the matcher find_brand_name / find_mrp, the  *)
(* batch driver process_dataframe_sequential and the Streamlit script that *)
(* loads the reference file, takes the upload and runs the batch.          *)
(*                                                                         *)
(* Values.  A Python str is a sequence of one-character strings.  The      *)
(* float NaN that pandas puts in an empty CSV cell is the one-element      *)
(* sequence NaN, which is no str (its element is not a character).  A      *)
(* DataFrame is a record [columns, rows]; a row is a record whose fields   *)
(* are the frame's columns.  A column read by read_csv has object dtype    *)
(* when some cell holds text (or the frame has no rows) and float64 when   *)
(* every cell is empty.                                                    *)
(***************************************************************************)
EXTENDS Integers, Sequences, FiniteSets, TLC

VARIABLES
    world,          \* what is on disk at public/products.csv
    pc,             \* position of the script run / of the function harness
    df_reference,   \* app.py:107, NoFrame for Python's None
    product_file,   \* app.py:130, the uploaded file (NoUpload for None)
    queries,        \* the product column of df_to_fill
    brands,         \* app.py:75
    mrps,           \* app.py:87
    call,           \* the last matcher call: function, arguments, outcome
    matcherCalls,   \* matcher invocations in this script run
    reported        \* what st.error / st.success / st.metric showed in this run

vars == <<world, pc, df_reference, product_file, queries, brands, mrps,
          call, matcherCalls, reported>>

-----------------------------------------------------------------------------
(* Bounds of the model *)

MaxRows == 2        \* reference rows, function-level specification
MaxRefRows == 1     \* reference rows, script-level specification
MaxQueries == 2     \* uploaded products per batch

-----------------------------------------------------------------------------
(* Python values *)

NaN == <<"NaN">>
Unknown == <<"U", "n", "k", "n", "o", "w", "n">>
UNKNOWN == <<"U", "N", "K", "N", "O", "W", "N">>
EmptyStr == <<>>
Whitespace == {" "}

UpperOf ==
    [a |-> "A", b |-> "B", c |-> "C", d |-> "D", e |-> "E", f |-> "F",
     g |-> "G", h |-> "H", i |-> "I", j |-> "J", k |-> "K", l |-> "L",
     m |-> "M", n |-> "N", o |-> "O", p |-> "P", q |-> "Q", r |-> "R",
     s |-> "S", t |-> "T", u |-> "U", v |-> "V", w |-> "W", x |-> "X",
     y |-> "Y", z |-> "Z"]

\* mutant of isna: the missing-value test left out
isna_never(v) == FALSE

\* pd.isna on a scalar
isna(v) == v = NaN

\* str(v): a str is itself, float NaN prints as "nan"
str(v) == IF v = NaN THEN <<"n", "a", "n">> ELSE v

\* str.upper()
upper(s) ==
    [idx \in 1..Len(s) |-> IF s[idx] \in DOMAIN UpperOf THEN UpperOf[s[idx]] ELSE s[idx]]

RECURSIVE lstrip(_)
lstrip(s) ==
    IF s # <<>> /\ Head(s) \in Whitespace THEN lstrip(Tail(s)) ELSE s

RECURSIVE rstrip(_)
rstrip(s) ==
    IF s # <<>> /\ s[Len(s)] \in Whitespace
    THEN rstrip(SubSeq(s, 1, Len(s) - 1))
    ELSE s

\* str.strip()
strip(s) == rstrip(lstrip(s))

\* Python's  a in b  on two str
In(a, b) ==
    \E off \in 0..(Len(b) - Len(a)) : SubSeq(b, off + 1, off + Len(a)) = a

Min(S) == CHOOSE x \in S : \A y \in S : x <= y

-----------------------------------------------------------------------------
(* pandas *)

NoFrame == [none |-> TRUE]

\* row.get(key, default): the default only when the column does not exist
Get(row, key, default) == IF key \in DOMAIN row THEN row[key] ELSE default

Column(brand_data, key) ==
    [idx \in 1..Len(brand_data.rows) |-> brand_data.rows[idx][key]]

\* brand_data[key] raises (TypeError on None, KeyError on a missing column)
Subscriptable(brand_data, key) ==
    /\ "columns" \in DOMAIN brand_data
    /\ key \in brand_data.columns

\* Series.str raises AttributeError on a float64 column
StrAccessible(col) ==
    \/ Len(col) = 0
    \/ \E idx \in 1..Len(col) : col[idx] # NaN

\* positions of  brand_data[brand_data[key].str.upper() == value]
UpperEquals(brand_data, key, value) ==
    {idx \in 1..Len(brand_data.rows) :
        /\ brand_data.rows[idx][key] # NaN
        /\ upper(brand_data.rows[idx][key]) = value}

\* the outcome of a call: the value returned (or that it raised), the source
\* line of the return or raise, and the reference lookups and scans started
Ret(v, line, n) == [ret |-> v, raised |-> FALSE, line |-> line, lookups |-> n]
Raise(line, n) == [ret |-> NaN, raised |-> TRUE, line |-> line, lookups |-> n]

-----------------------------------------------------------------------------
(* The matcher, app.py:7-62.  Each function yields its return value (or   *)
(* that it raised) and how many reference lookups or scans it started.    *)

\* mutant of BrandProductScan: containment tested in one direction only
BrandProductScanOneWay(rows, product_name) ==
    {idx \in 1..Len(rows) :
        LET ref_product == upper(strip(str(Get(rows[idx], "Product_Name", EmptyStr))))
        IN  /\ ref_product # EmptyStr
            /\ In(ref_product, product_name)}

\* mutant of BrandProductScan: an empty query matches nothing
BrandProductScanNonEmptyQuery(rows, product_name) ==
    {idx \in 1..Len(rows) :
        LET ref_product == upper(strip(str(Get(rows[idx], "Product_Name", EmptyStr))))
        IN  /\ ref_product # EmptyStr
            /\ product_name # EmptyStr
            /\ (In(ref_product, product_name) \/ In(product_name, ref_product))}

\* rows whose stripped, upper-cased product name contains or is contained in
\* the query: the third pass of find_brand_name (app.py:28-30)
BrandProductScan(rows, product_name) ==
    {idx \in 1..Len(rows) :
        LET ref_product == upper(strip(str(Get(rows[idx], "Product_Name", EmptyStr))))
        IN  /\ ref_product # EmptyStr
            /\ (In(ref_product, product_name) \/ In(product_name, ref_product))}

\* the same scan in find_mrp (app.py:57-59)
MrpProductScan(rows, product_name) ==
    {idx \in 1..Len(rows) :
        LET ref_product == upper(strip(str(Get(rows[idx], "Product_Name", EmptyStr))))
        IN  /\ ref_product # EmptyStr
            /\ (In(ref_product, product_name) \/ In(product_name, ref_product))}

\* rows whose stripped brand is non-empty and occurs in the query (app.py:22-24)
BrandScan(rows, product_name) ==
    {idx \in 1..Len(rows) :
        LET brand_name == strip(str(Get(rows[idx], "Brand_Name", EmptyStr)))
        IN  /\ brand_name # EmptyStr
            /\ In(upper(brand_name), product_name)}

find_brand_name(product_name0, brand_data) ==
    IF isna(product_name0) THEN Ret(Unknown, 12, 0)
    ELSE
    LET product_name == upper(strip(str(product_name0))) IN
    IF ~Subscriptable(brand_data, "Product_Name") THEN Raise(17, 1)
    ELSE IF ~StrAccessible(Column(brand_data, "Product_Name")) THEN Raise(17, 1)
    ELSE
    LET rows == brand_data.rows
        matching_rows == UpperEquals(brand_data, "Product_Name", product_name)
        byBrand == BrandScan(rows, product_name)
        byProduct == BrandProductScan(rows, product_name)
    IN  IF matching_rows # {}
        THEN Ret(Get(rows[Min(matching_rows)], "Brand_Name", Unknown), 19, 1)
        ELSE IF byBrand # {}
        THEN Ret(strip(str(Get(rows[Min(byBrand)], "Brand_Name", EmptyStr))), 25, 2)
        ELSE IF byProduct # {}
        THEN Ret(Get(rows[Min(byProduct)], "Brand_Name", Unknown), 31, 3)
        ELSE Ret(Unknown, 33, 3)

find_mrp(product_name0, brand_name0, brand_data) ==
    IF isna(product_name0) THEN Ret(Unknown, 40, 0)
    ELSE
    LET product_name == upper(strip(str(product_name0)))
        brand_name == upper(strip(str(brand_name0)))
    IN
    IF ~Subscriptable(brand_data, "Product_Name") THEN Raise(46, 1)
    ELSE IF ~StrAccessible(Column(brand_data, "Product_Name")) THEN Raise(46, 1)
    ELSE
    LET rows == brand_data.rows
        matching_rows == UpperEquals(brand_data, "Product_Name", product_name)
        byProduct == MrpProductScan(rows, product_name)
        scan(n) == IF byProduct # {}
                   THEN Ret(Get(rows[Min(byProduct)], "MRP", Unknown), 60, n)
                   ELSE Ret(Unknown, 62, n)
    IN  IF matching_rows # {}
        THEN Ret(Get(rows[Min(matching_rows)], "MRP", Unknown), 48, 1)
        ELSE IF brand_name = UNKNOWN THEN scan(2)
        ELSE IF ~Subscriptable(brand_data, "Brand_Name") THEN Raise(52, 2)
        ELSE IF ~StrAccessible(Column(brand_data, "Brand_Name")) THEN Raise(52, 2)
        ELSE
        LET brand_matching_rows == UpperEquals(brand_data, "Brand_Name", brand_name)
        IN  IF brand_matching_rows # {}
            THEN Ret(Get(rows[Min(brand_matching_rows)], "MRP", Unknown), 54, 2)
            ELSE scan(3)

-----------------------------------------------------------------------------
(* Inputs: CSV cells as read_csv delivers them (an empty cell is NaN, text *)
(* keeps its case and its padding).                                        *)

ProductPool == {NaN, <<"a">>, <<" ", "A">>, <<"A", "B">>}
BrandPool == {NaN, <<"B">>, <<" ", "b">>, Unknown}
MrpPool == {NaN, <<"1", "0">>}
QueryPool ==
    {NaN, <<"a">>, <<" ">>, <<"a", "b", " ">>, <<"x">>,
     <<"b", "a", "n", "a", "n", "a">>}
KnownBrandPool == {NaN, Unknown, <<"b">>}

SeqsUpTo(S, n) == UNION {[1..k -> S] : k \in 0..n}

FramesOver(columns, rowSet, n) ==
    {[columns |-> columns, rows |-> rs] : rs \in SeqsUpTo(rowSet, n)}

\* reference frames with a Product_Name column and any of Brand_Name, MRP
Frames(P, B, M, n) ==
    FramesOver({"Product_Name", "Brand_Name", "MRP"},
               [Product_Name : P, Brand_Name : B, MRP : M], n)
    \cup FramesOver({"Product_Name", "Brand_Name"},
               [Product_Name : P, Brand_Name : B], n)
    \cup FramesOver({"Product_Name", "MRP"},
               [Product_Name : P, MRP : M], n)
    \cup FramesOver({"Product_Name"}, [Product_Name : P], n)

NoUpload == [none |-> TRUE]
IsNone(x) == "none" \in DOMAIN x

\* what the page shows in one run: the outcome of loading the reference
\* (app.py:112, 122, 125), the error of app.py:237, the metrics of app.py:215-227
NothingReported ==
    [reference |-> "nothing", processing_error |-> FALSE, metrics |-> <<>>]
NoCall ==
    [fn |-> "none", product_name |-> NaN, brand_name |-> NaN,
     ret |-> NaN, raised |-> FALSE, line |-> 0, lookups |-> 0]

Called(fn, product_name, brand_name, out) ==
    [fn |-> fn, product_name |-> product_name, brand_name |-> brand_name,
     ret |-> out.ret, raised |-> out.raised, line |-> out.line,
     lookups |-> out.lookups]

-----------------------------------------------------------------------------
(* Function-level specification: one reference frame, one query; the two   *)
(* matcher functions are applied to them.                                  *)

InitFn ==
    /\ world = [file |-> "none"]
    /\ pc = "ready"
    /\ df_reference \in Frames(ProductPool, BrandPool, MrpPool, MaxRows)
    /\ product_file = NoUpload
    /\ queries \in {<<q>> : q \in QueryPool}
    /\ brands = <<>>
    /\ mrps = <<>>
    /\ call = NoCall
    /\ matcherCalls = 0
    /\ reported = NothingReported

\* brand = find_brand_name(product_name, df_products)
CallFindBrand ==
    /\ pc = "ready"
    /\ LET out == find_brand_name(queries[1], df_reference)
       IN  /\ call' = Called("find_brand_name", queries[1], NaN, out)
           /\ brands' = IF out.raised THEN brands ELSE <<out.ret>>
           /\ pc' = IF out.raised THEN "raised" ELSE "branded"
    /\ matcherCalls' = matcherCalls + 1
    /\ UNCHANGED <<world, df_reference, product_file, queries, mrps, reported>>

\* mrp = find_mrp(product_name, brand, df_products) with the brand just found
CallFindMrpOfBrand ==
    /\ pc = "branded"
    /\ LET out == find_mrp(queries[1], brands[1], df_reference)
       IN  /\ call' = Called("find_mrp", queries[1], brands[1], out)
           /\ mrps' = IF out.raised THEN mrps ELSE <<out.ret>>
           /\ pc' = IF out.raised THEN "raised" ELSE "priced"
    /\ matcherCalls' = matcherCalls + 1
    /\ UNCHANGED <<world, df_reference, product_file, queries, brands, reported>>

\* mrp = find_mrp(product_name, brand_name, df_products) for any known brand
CallFindMrp ==
    /\ pc = "ready"
    /\ \E brand_name \in KnownBrandPool :
        LET out == find_mrp(queries[1], brand_name, df_reference)
        IN  /\ call' = Called("find_mrp", queries[1], brand_name, out)
            /\ mrps' = IF out.raised THEN mrps ELSE <<out.ret>>
            /\ pc' = IF out.raised THEN "raised" ELSE "looked_up"
    /\ matcherCalls' = matcherCalls + 1
    /\ UNCHANGED <<world, df_reference, product_file, queries, brands, reported>>

NextFn == CallFindBrand \/ CallFindMrpOfBrand \/ CallFindMrp

SpecFn == InitFn /\ [][NextFn]_vars

-----------------------------------------------------------------------------
(* Script-level specification: one run of the Streamlit script top to      *)
(* bottom (app.py:105-242), rerun on every interaction.  The reference     *)
(* file carries the three standard column names, which the select boxes    *)
(* pre-select (app.py:154, 159, 164), and the upload has one column, so    *)
(* the renames of app.py:176-185 leave the values as they are.             *)

AppQueryPool == {NaN, <<"a">>, <<"x">>, <<"b", "a", "n", "a", "n", "a">>}

ReferenceFiles ==
    FramesOver({"Product_Name", "Brand_Name", "MRP"},
               [Product_Name : ProductPool, Brand_Name : BrandPool, MRP : MrpPool],
               MaxRefRows)

\* public/products.csv: absent, unreadable to read_csv, or a table
Worlds ==
    {[file |-> "missing", frame |-> NoFrame], [file |-> "unreadable", frame |-> NoFrame]}
    \cup {[file |-> "ok", frame |-> f] : f \in ReferenceFiles}

\* what st.file_uploader returns: None, or a file read_csv accepts or rejects
Uploads ==
    {[kind |-> "bad", products |-> <<>>]}
    \cup {[kind |-> "csv", products |-> qs] : qs \in SeqsUpTo(AppQueryPool, MaxQueries)}

\* mutant of LoadedFrame: an empty table stands in for a reference that did
\* not load
LoadedFrameOrEmpty(w) ==
    IF w.file = "ok"
    THEN w.frame
    ELSE [columns |-> {"Product_Name", "Brand_Name", "MRP"}, rows |-> <<>>]

\* df_reference after app.py:107-125: None unless the file exists and parses
LoadedFrame(w) == IF w.file = "ok" THEN w.frame ELSE NoFrame

\* the message of app.py:112, 122 or 125
LoadMessage(w) ==
    CASE w.file = "ok" -> "loaded"
      [] w.file = "missing" -> "not found"
      [] OTHER -> "load error"

\* app.py:133
CanProcess(reference, upload) == ~IsNone(reference) /\ ~IsNone(upload)

\* len(result_df[result_df[col] != 'Unknown']); NaN != 'Unknown' is True
Identified(column) == Cardinality({idx \in 1..Len(column) : column[idx] # Unknown})

Init ==
    /\ world \in Worlds
    /\ pc = "load"
    /\ df_reference = NoFrame
    /\ product_file = NoUpload
    /\ queries = <<>>
    /\ brands = <<>>
    /\ mrps = <<>>
    /\ call = NoCall
    /\ matcherCalls = 0
    /\ reported = NothingReported

\* app.py:105-125
LoadReference ==
    /\ pc = "load"
    /\ df_reference' = LoadedFrame(world)
    /\ reported' = [reported EXCEPT !.reference = LoadMessage(world)]
    /\ pc' = "upload"
    /\ UNCHANGED <<world, product_file, queries, brands, mrps, call, matcherCalls>>

\* app.py:130
FileUploader ==
    /\ pc = "upload"
    /\ product_file' \in Uploads \cup {NoUpload}
    /\ pc' = "guard"
    /\ UNCHANGED <<world, df_reference, queries, brands, mrps, call, matcherCalls,
                   reported>>

\* app.py:133 false: nothing below it runs
SkipProcessing ==
    /\ pc = "guard"
    /\ ~CanProcess(df_reference, product_file)
    /\ pc' = "end"
    /\ UNCHANGED <<world, df_reference, product_file, queries, brands, mrps, call,
                   matcherCalls, reported>>

\* app.py:135-170; read_csv raising lands in the handler of app.py:236
ReadUpload ==
    /\ pc = "guard"
    /\ CanProcess(df_reference, product_file)
    /\ IF product_file.kind = "csv"
       THEN /\ queries' = product_file.products
            /\ pc' = "button"
            /\ UNCHANGED reported
       ELSE /\ reported' = [reported EXCEPT !.processing_error = TRUE]
            /\ pc' = "aborted"
            /\ UNCHANGED queries
    /\ UNCHANGED <<world, df_reference, product_file, brands, mrps, call, matcherCalls>>

\* app.py:173 false
ButtonNotPressed ==
    /\ pc = "button"
    /\ pc' = "end"
    /\ UNCHANGED <<world, df_reference, product_file, queries, brands, mrps, call,
                   matcherCalls, reported>>

\* app.py:173 true, 176-188 and process_dataframe_sequential up to app.py:75
StartProcessing ==
    /\ pc = "button"
    /\ brands' = <<>>
    /\ pc' = "brand"
    /\ UNCHANGED <<world, df_reference, product_file, queries, mrps, call,
                   matcherCalls, reported>>

\* one iteration of app.py:76-79; an exception leaves the function and is
\* caught at app.py:236
BrandStep ==
    /\ pc = "brand"
    /\ Len(brands) < Len(queries)
    /\ LET product_name == queries[Len(brands) + 1]
           out == find_brand_name(product_name, df_reference)
       IN  /\ call' = Called("find_brand_name", product_name, NaN, out)
           /\ IF out.raised
              THEN /\ reported' = [reported EXCEPT !.processing_error = TRUE]
                   /\ pc' = "aborted"
                   /\ UNCHANGED brands
              ELSE /\ brands' = Append(brands, out.ret)
                   /\ UNCHANGED <<pc, reported>>
    /\ matcherCalls' = matcherCalls + 1
    /\ UNCHANGED <<world, df_reference, product_file, queries, mrps>>

\* app.py:81-87
BrandsDone ==
    /\ pc = "brand"
    /\ Len(brands) = Len(queries)
    /\ mrps' = <<>>
    /\ pc' = "mrp"
    /\ UNCHANGED <<world, df_reference, product_file, queries, brands, call,
                   matcherCalls, reported>>

\* one iteration of app.py:88-91
MrpStep ==
    /\ pc = "mrp"
    /\ Len(mrps) < Len(queries)
    /\ LET product_name == queries[Len(mrps) + 1]
           brand_name == brands[Len(mrps) + 1]
           out == find_mrp(product_name, brand_name, df_reference)
       IN  /\ call' = Called("find_mrp", product_name, brand_name, out)
           /\ IF out.raised
              THEN /\ reported' = [reported EXCEPT !.processing_error = TRUE]
                   /\ pc' = "aborted"
                   /\ UNCHANGED mrps
              ELSE /\ mrps' = Append(mrps, out.ret)
                   /\ UNCHANGED <<pc, reported>>
    /\ matcherCalls' = matcherCalls + 1
    /\ UNCHANGED <<world, df_reference, product_file, queries, brands>>

\* app.py:93-95
MrpsDone ==
    /\ pc = "mrp"
    /\ Len(mrps) = Len(queries)
    /\ pc' = "returned"
    /\ UNCHANGED <<world, df_reference, product_file, queries, brands, mrps, call,
                   matcherCalls, reported>>

\* app.py:190-234; the percentages divide by total_products (app.py:220)
ShowResults ==
    /\ pc = "returned"
    /\ LET total_products == Len(queries)
           identified_brands == Identified(brands)
           identified_mrp == Identified(mrps)
       IN  IF total_products = 0
           THEN /\ reported' = [reported EXCEPT !.processing_error = TRUE]
                /\ pc' = "aborted"
           ELSE /\ reported' = [reported EXCEPT
                        !.metrics = <<total_products, identified_brands, identified_mrp>>]
                /\ pc' = "end"
    /\ UNCHANGED <<world, df_reference, product_file, queries, brands, mrps, call,
                   matcherCalls>>

\* a widget interaction reruns the script from the top
Rerun ==
    /\ pc \in {"end", "aborted"}
    /\ pc' = "load"
    /\ df_reference' = NoFrame
    /\ product_file' = NoUpload
    /\ queries' = <<>>
    /\ brands' = <<>>
    /\ mrps' = <<>>
    /\ call' = NoCall
    /\ matcherCalls' = 0
    /\ reported' = NothingReported
    /\ UNCHANGED world

Next ==
    \/ LoadReference
    \/ FileUploader
    \/ SkipProcessing
    \/ ReadUpload
    \/ ButtonNotPressed
    \/ StartProcessing
    \/ BrandStep
    \/ BrandsDone
    \/ MrpStep
    \/ MrpsDone
    \/ ShowResults
    \/ Rerun

Spec == Init /\ [][Next]_vars

-----------------------------------------------------------------------------
(* Vocabulary of the properties: the specification's normalisation (trim,  *)
(* upper-case) of a stored text field, and whether a reference field holds *)
(* a value at all.                                                         *)

Norm(v) == upper(strip(v))

\* a missing (null) query or field
Missing(v) == v = NaN

HasValue(row, key) == key \in DOMAIN row /\ row[key] # NaN

RefRows == df_reference.rows

\* no cell of the given reference column is empty
Filled(key) == \A idx \in 1..Len(RefRows) : HasValue(RefRows[idx], key)

\* rows whose normalised product name equals the normalised query
NormProductRows(product_name) ==
    {idx \in 1..Len(RefRows) :
        /\ HasValue(RefRows[idx], "Product_Name")
        /\ Norm(RefRows[idx].Product_Name) = Norm(product_name)}

\* rows whose normalised brand is non-empty and occurs in the normalised query
NormBrandInQueryRows(product_name) ==
    {idx \in 1..Len(RefRows) :
        /\ HasValue(RefRows[idx], "Brand_Name")
        /\ Norm(RefRows[idx].Brand_Name) # EmptyStr
        /\ In(Norm(RefRows[idx].Brand_Name), Norm(product_name))}

\* rows whose normalised brand equals the normalised known brand
NormBrandRows(brand_name) ==
    {idx \in 1..Len(RefRows) :
        /\ HasValue(RefRows[idx], "Brand_Name")
        /\ Norm(RefRows[idx].Brand_Name) = Norm(brand_name)}

BrandCall == call.fn = "find_brand_name" /\ ~call.raised
MrpCall == call.fn = "find_mrp" /\ ~call.raised

-----------------------------------------------------------------------------
(* Function-level properties, specification SpecFn *)

(* C1: a non-missing query whose trimmed, upper-cased form equals the      *)
(* trimmed, upper-cased product name of some reference row gets the brand  *)
(* of the lowest such row from find_brand_name.  Stated for references     *)
(* with no empty product or brand cell.                                    *)
C1_ExactMatchReturnsLowestRowBrand ==
    (/\ BrandCall
     /\ ~Missing(call.product_name)
     /\ Filled("Product_Name")
     /\ Filled("Brand_Name")
     /\ NormProductRows(call.product_name) # {})
    => call.ret = RefRows[Min(NormProductRows(call.product_name))].Brand_Name

(* C2: with no exact product match, when some row's non-empty normalised   *)
(* brand occurs in the normalised query, find_brand_name returns the brand *)
(* of the first such row (as stored, or trimmed), whatever rows qualify by *)
(* product substring.  Stated for references with no empty product cell.   *)
C2_BrandSubstringPassWins ==
    (/\ BrandCall
     /\ ~Missing(call.product_name)
     /\ Filled("Product_Name")
     /\ NormProductRows(call.product_name) = {}
     /\ NormBrandInQueryRows(call.product_name) # {})
    => LET row == RefRows[Min(NormBrandInQueryRows(call.product_name))]
       IN  call.ret \in {row.Brand_Name, strip(row.Brand_Name)}

(* C3: with no exact product match and a known brand that is not Unknown   *)
(* and equals, after normalisation, the brand of some reference row,       *)
(* find_mrp returns the MRP of the first row with that brand.  Stated for  *)
(* references with no empty cell.                                          *)
C3_KnownBrandMrpBeforeScan ==
    (/\ MrpCall
     /\ ~Missing(call.product_name)
     /\ ~Missing(call.brand_name)
     /\ Norm(call.brand_name) # UNKNOWN
     /\ Filled("Product_Name")
     /\ Filled("Brand_Name")
     /\ Filled("MRP")
     /\ NormProductRows(call.product_name) = {}
     /\ NormBrandRows(call.brand_name) # {})
    => call.ret = RefRows[Min(NormBrandRows(call.brand_name))].MRP

(* C4: when the query exactly matches a reference product name and the     *)
(* first matching row has no brand (no MRP), find_brand_name (find_mrp)    *)
(* returns "Unknown".                                                      *)
C4_MissingFieldIsUnknown ==
    LET matching_rows ==
            UpperEquals(df_reference, "Product_Name", Norm(call.product_name))
    IN  (/\ call.fn \in {"find_brand_name", "find_mrp"}
         /\ ~call.raised
         /\ ~Missing(call.product_name)
         /\ matching_rows # {})
        => LET row == RefRows[Min(matching_rows)]
           IN  /\ (call.fn = "find_brand_name" /\ ~HasValue(row, "Brand_Name"))
                    => call.ret = Unknown
               /\ (call.fn = "find_mrp" /\ ~HasValue(row, "MRP"))
                    => call.ret = Unknown

(* C7: for a missing query both functions return "Unknown" from their      *)
(* first return statement, before any lookup or scan of the reference.     *)
C7_MissingQueryIsUnknownWithoutLookup ==
    (call.fn \in {"find_brand_name", "find_mrp"} /\ Missing(call.product_name))
    => /\ ~call.raised
       /\ call.ret = Unknown
       /\ call.lookups = 0

\* both functions were applied to a missing query over a full reference
C7_Witness ==
    /\ pc = "priced"
    /\ Missing(queries[1])
    /\ Len(RefRows) = 2
    /\ Filled("Product_Name")
    /\ brands = <<Unknown>>
    /\ mrps = <<Unknown>>

(* C10: for a non-missing query that is empty after trimming, and a        *)
(* reference whose rows all have a non-empty product name,                 *)
(* find_brand_name returns from the product-substring pass with the brand  *)
(* of the first row.                                                       *)
C10_Precondition ==
    /\ call.fn = "find_brand_name"
    /\ ~Missing(call.product_name)
    /\ strip(call.product_name) = EmptyStr
    /\ Len(RefRows) >= 1
    /\ \A idx \in 1..Len(RefRows) :
        /\ HasValue(RefRows[idx], "Product_Name")
        /\ strip(RefRows[idx].Product_Name) # EmptyStr

C10_EmptyQueryMatchesFirstRow ==
    C10_Precondition
    => /\ ~call.raised
       /\ call.line = 31
       /\ call.ret = Get(RefRows[1], "Brand_Name", Unknown)

\* a blank query got the first row's brand, which the second row does not share
C10_Witness ==
    /\ C10_Precondition
    /\ Len(RefRows) = 2
    /\ call.ret = <<"B">>
    /\ HasValue(RefRows[2], "Brand_Name")
    /\ RefRows[2].Brand_Name # <<"B">>

-----------------------------------------------------------------------------
(* Script-level properties, specification Spec *)

\* the reference column of product names holds text somewhere, so the
\* table as a whole is usable
UsableReference ==
    /\ ~IsNone(df_reference)
    /\ Len(RefRows) >= 1
    /\ StrAccessible(Column(df_reference, "Product_Name"))

BatchLeft == pc \in {"returned", "end", "aborted"}

(* C5: process_dataframe_sequential returns one result per query, in       *)
(* order, result i holding find_brand_name(query i) and find_mrp(query i,  *)
(* brand i).  Stated for a batch that made at least one matcher call over  *)
(* a usable reference.                                                     *)
C5_BatchReturnsPairedResults ==
    (UsableReference /\ matcherCalls > 0 /\ BatchLeft)
    => /\ Len(brands) = Len(queries)
       /\ Len(mrps) = Len(queries)
       /\ \A idx \in 1..Len(queries) :
            /\ brands[idx] = find_brand_name(queries[idx], df_reference).ret
            /\ mrps[idx] = find_mrp(queries[idx], brands[idx], df_reference).ret

\* what does hold: whenever the function returns, the results are paired
PairedWhenReturned ==
    pc = "returned"
    => /\ Len(brands) = Len(queries)
       /\ Len(mrps) = Len(queries)
       /\ \A idx \in 1..Len(queries) :
            /\ brands[idx] = find_brand_name(queries[idx], df_reference).ret
            /\ mrps[idx] = find_mrp(queries[idx], brands[idx], df_reference).ret

(* C6: a failure raised while resolving one query does not abort the       *)
(* batch: the affected field resolves to "Unknown" and the batch goes on.  *)
(* Stated for a usable reference.                                          *)
C6_QueryFailureIsAbsorbed ==
    (UsableReference /\ call.raised)
    => /\ pc \in {"brand", "mrp", "returned", "end"}
       /\ call.fn = "find_brand_name"
            => (brands # <<>> /\ brands[Len(brands)] = Unknown)
       /\ call.fn = "find_mrp"
            => (mrps # <<>> /\ mrps[Len(mrps)] = Unknown)

(* C8: when the reference file is missing or fails to load, the run        *)
(* reports it and never reaches the matcher, whatever is uploaded.         *)
C8_NoMatcherWithoutReference ==
    (world.file \in {"missing", "unreadable"} /\ pc # "load")
    => /\ reported.reference \in {"not found", "load error"}
       /\ IsNone(df_reference)
       /\ matcherCalls = 0
       /\ call = NoCall
       /\ pc \in {"upload", "guard", "end"}

\* a run without reference file ended although a full batch was uploaded
C8_Witness ==
    /\ world.file = "missing"
    /\ pc = "end"
    /\ ~IsNone(product_file)
    /\ product_file.kind = "csv"
    /\ Len(product_file.products) = 2
    /\ reported.reference = "not found"

(* C9: over a reference whose rows all have a non-empty brand other than   *)
(* "Unknown", a query whose brand came out "Unknown" gets the MRP          *)
(* "Unknown", and the MRPs counted as identified never exceed the brands   *)
(* counted as identified.                                                  *)
C9_Precondition ==
    /\ ~IsNone(df_reference)
    /\ \A idx \in 1..Len(RefRows) :
        /\ HasValue(RefRows[idx], "Brand_Name")
        /\ Norm(RefRows[idx].Brand_Name) # EmptyStr
        /\ Norm(RefRows[idx].Brand_Name) # UNKNOWN

====
